---- MODULE Spec2Model ----
(***************************************************************************)
(* Model of examples/python/basic_staking.py: the PhaseStakingClient       *)
(* (session scope, build_stake_transaction, execute_staking, check_health) *)
(* and the main() workflow that drives it.                                 *)
(*                                                                         *)
(* Two specifications:                                                     *)
(*   Spec        one run of main(), every remote answer chosen by the      *)
(*               environment;                                              *)
(*   SpecClient  a caller using the client's methods directly, in any      *)
(*               order, inside or outside the `async with` scope.          *)
(***************************************************************************)
EXTENDS Integers, Sequences, FiniteSets, TLC

VARIABLES
    pc,         \* position of main() / execute_staking (Spec), "client" in SpecClient
    config,     \* [api_key, agent_private_key]: are the environment variables set
    session,    \* PhaseStakingClient.session: "none" | "open" | "closed"
    solana,     \* solana_client: "unbound" | "open" | "closed"
    keypair,    \* agent_keypair loaded
    health,     \* value returned by check_health: "unset" | "true" | "false"
    balance,    \* balance_lamports read from the RPC answer, -1 before
    txdata,     \* transaction_data returned by build_stake_transaction (its kind)
    tx,         \* transaction: "none" | "unsigned" | "signed"
    signature,  \* response['result'] of send_transaction, "" before
    outcome,    \* value returned by execute_staking, or NoOutcome
    err,        \* the exception in flight, or NoErr
    raisedAt,   \* [step, err] of the first exception raised inside execute_staking
    log,        \* the lines printed, as [marker, msg] records
    calls,      \* remote calls and transaction steps attempted, in order
    result,     \* how main() ended: "running" | "returned" | "raised"
    lastCall    \* SpecClient: the last method call, its input and its result

vars == <<pc, config, session, solana, keypair, health, balance, txdata, tx,
          signature, outcome, err, raisedAt, log, calls, result, lastCall>>

----------------------------------------------------------------------------
(* Bounds and program constants *)

\* SpecClient: number of HTTP requests a caller issues
MaxCalls == 2

\* balance_sol = balance_lamports / 1_000_000_000
LamportsPerSol == 1000000000

\* the literal 1.1 of `if balance_sol < 1.1`, in tenths of a SOL
MinBalanceTenths == 11

\* balances the RPC node may report, in lamports (1.05 SOL and both sides of 1.1)
Balances == {0, 1050000000, 1099999999, 1100000000, 2000000000}

\* error.message texts a server may send
Messages == {"rate limited", "invalid wallet"}

----------------------------------------------------------------------------
(* Values *)

NoErr == [type |-> "none", msg |-> ""]

Err(t, m) == [type |-> t, msg |-> m]

NoOutcome == [present |-> FALSE, signature |-> "", stake_account |-> "",
              validator |-> "", estimated_apy |-> ""]

NoRaise == [step |-> "none", err |-> NoErr]

\* what the server put in data.metadata / data.transaction
StakeAccount == "StakeAcct111"
Validator == "Validator111"
EstimatedApy == "7.2"
TxSignature == "Sig111"

\* kinds of `data` record in a /stake/build answer:
\*   good          complete, serialized is a valid base64 transaction
\*   nometa        metadata (or one of its fields / fees) is missing
\*   noserialized  transaction.serialized is missing
\*   badb64        serialized is not base64
\*   badtx         serialized decodes but is no transaction
DataKinds == {"good", "nometa", "noserialized", "badb64", "badtx"}

\* Answers to POST /stake/build. Fields that the code cannot read (after a
\* transport failure, or when the body is no JSON object) are held at one value.
BuildFailed == [transport |-> "fail", ok |-> FALSE, kind |-> "invalid",
                error |-> "absent", msgKind |-> "absent", msgText |-> "",
                data |-> "absent"]

BuildResponses ==
    {BuildFailed}
    \cup {[BuildFailed EXCEPT !.transport = "ok", !.ok = o, !.kind = k]
            : o \in BOOLEAN, k \in {"invalid", "nonobject"}}
    \cup {[transport |-> "ok", ok |-> o, kind |-> "object", error |-> e,
           msgKind |-> "absent", msgText |-> "", data |-> d]
            : o \in BOOLEAN, e \in {"absent", "nondict", "object"},
              d \in DataKinds \cup {"absent"}}
    \cup {[transport |-> "ok", ok |-> o, kind |-> "object", error |-> "object",
           msgKind |-> "null", msgText |-> "", data |-> d]
            : o \in BOOLEAN, d \in DataKinds \cup {"absent"}}
    \cup {[transport |-> "ok", ok |-> o, kind |-> "object", error |-> "object",
           msgKind |-> "string", msgText |-> m, data |-> d]
            : o \in BOOLEAN, m \in Messages, d \in DataKinds \cup {"absent"}}

\* Answers to GET /health.
HealthFailed == [transport |-> "fail", ok |-> FALSE, kind |-> "invalid",
                 success |-> FALSE, data |-> "absent", status |-> "absent",
                 latency |-> FALSE]

HealthResponses ==
    {HealthFailed}
    \cup {[HealthFailed EXCEPT !.transport = "ok", !.ok = o, !.kind = k]
            : o \in BOOLEAN, k \in {"invalid", "nonobject"}}
    \cup {[transport |-> "ok", ok |-> o, kind |-> "object", success |-> s,
           data |-> d, status |-> "absent", latency |-> FALSE]
            : o \in BOOLEAN, s \in BOOLEAN, d \in {"absent", "null"}}
    \cup {[transport |-> "ok", ok |-> o, kind |-> "object", success |-> s,
           data |-> "object", status |-> st, latency |-> l]
            : o \in BOOLEAN, s \in BOOLEAN,
              st \in {"absent", "healthy", "degraded"}, l \in BOOLEAN}

NoCall == [op |-> "none", sess |-> "none", build |-> BuildFailed,
           health |-> HealthFailed, sent |-> FALSE, raised |-> FALSE,
           err |-> NoErr, ret |-> "none"]

----------------------------------------------------------------------------
(* Pure parts of the client *)

NotInitialized == "Client not initialized. Use 'async with' context manager."

\* the guard of line 54 left out
SessionGuardMissing(sess) ==
    IF sess = "closed" THEN Err("RuntimeError", "Session is closed") ELSE NoErr

\* `if not self.session: raise RuntimeError(...)`; a closed aiohttp session is
\* still a truthy object and refuses the request itself, before sending it.
SessionGuard(sess) ==
    IF sess = "none" THEN Err("RuntimeError", NotInitialized)
    ELSE IF sess = "closed" THEN Err("RuntimeError", "Session is closed")
    ELSE NoErr

\* f"{value}" of a JSON value
Format(kind, text) == IF kind = "null" THEN "None" ELSE text

\* the message looked up at the wrong level: result.get("message", ...)
ErrorMsgTopLevel(resp) == "Unknown API error"

\* result.get("error", {}).get("message", "Unknown API error")
ErrorMsg(resp) ==
    IF resp.error = "absent" \/ resp.msgKind = "absent"
    THEN "Unknown API error"
    ELSE Format(resp.msgKind, resp.msgText)

\* Exception(f"API Error: {error_msg}")
ApiError(resp) == Err("Exception", "API Error: " \o ErrorMsg(resp))

Raised(sent, e) == [sent |-> sent, raised |-> TRUE, err |-> e, data |-> "absent"]

Returned(d) == [sent |-> TRUE, raised |-> FALSE, err |-> NoErr, data |-> d]

BuildStakeTransaction(sess, resp) ==
    IF SessionGuard(sess) # NoErr THEN Raised(FALSE, SessionGuard(sess))
    ELSE IF resp.transport = "fail"
        THEN Raised(TRUE, Err("ClientError", "Cannot connect to host"))
    ELSE IF resp.kind = "invalid"
        THEN Raised(TRUE, Err("ContentTypeError", "Attempt to decode JSON"))
    ELSE IF ~resp.ok
        THEN IF resp.kind = "nonobject" \/ resp.error = "nondict"
             THEN Raised(TRUE, Err("AttributeError", "object has no attribute 'get'"))
             ELSE Raised(TRUE, ApiError(resp))
    ELSE IF resp.kind = "nonobject"
        THEN Raised(TRUE, Err("TypeError", "indices must be integers"))
    ELSE IF resp.data = "absent"
        THEN Raised(TRUE, Err("KeyError", "'data'"))
    ELSE Returned(resp.data)

\* response.ok and result.get("success") and
\*     result.get("data", {}).get("status") == "healthy"
\* evaluated left to right; "raise" where the evaluation itself fails.
HealthCondition(resp) ==
    IF ~resp.ok THEN "false"
    ELSE IF resp.kind = "nonobject" THEN "raise"
    ELSE IF ~resp.success THEN "false"
    ELSE IF resp.data = "absent" THEN "false"
    ELSE IF resp.data = "null" THEN "raise"
    ELSE IF resp.status = "healthy" THEN "true" ELSE "false"

HRaised(sent, e) == [sent |-> sent, raised |-> TRUE, err |-> e, ret |-> "none"]

HReturned(b) == [sent |-> TRUE, raised |-> FALSE, err |-> NoErr, ret |-> b]

CheckHealth(sess, resp) ==
    IF SessionGuard(sess) # NoErr THEN HRaised(FALSE, SessionGuard(sess))
    ELSE IF resp.transport = "fail"
        THEN HRaised(TRUE, Err("ClientError", "Cannot connect to host"))
    ELSE IF resp.kind = "invalid"
        THEN HRaised(TRUE, Err("ContentTypeError", "Attempt to decode JSON"))
    ELSE IF HealthCondition(resp) = "raise"
        THEN HRaised(TRUE, Err("AttributeError", "object has no attribute 'get'"))
    ELSE IF HealthCondition(resp) = "false" THEN HReturned("false")
    ELSE IF ~resp.latency THEN HRaised(TRUE, Err("KeyError", "'latency'"))
    ELSE HReturned("true")

\* the fee margin forgotten: balance_sol < 1.0
InsufficientBalanceNoFees(lamports) == lamports < LamportsPerSol

\* the comparison turned round: balance_sol > 1.1
InsufficientBalanceInverted(lamports) ==
    lamports > (MinBalanceTenths * (LamportsPerSol \div 10))

\* balance_sol < 1.1 with balance_sol = balance_lamports / 1_000_000_000.
\* The float quotient of an integer below 2^53 by 10^9 is below the float 1.1
\* exactly when the integer is below 1_100_000_000.
InsufficientBalance(lamports) ==
    lamports < (MinBalanceTenths * (LamportsPerSol \div 10))

Line(marker, msg) == [marker |-> marker, msg |-> msg]

Count(seq, x) == Cardinality({i \in DOMAIN seq : seq[i] = x})

----------------------------------------------------------------------------
(* main(): one run *)

Init ==
    /\ pc = "start"
    /\ config \in [api_key : BOOLEAN, agent_private_key : BOOLEAN]
    /\ session = "none"
    /\ solana = "unbound"
    /\ keypair = FALSE
    /\ health = "unset"
    /\ balance = -1
    /\ txdata = "absent"
    /\ tx = "none"
    /\ signature = ""
    /\ outcome = NoOutcome
    /\ err = NoErr
    /\ raisedAt = NoRaise
    /\ log = <<>>
    /\ calls = <<>>
    /\ result = "running"
    /\ lastCall = NoCall

\* an exception leaves the body of `async with`: __aexit__ runs next
RaiseInScope(e) ==
    /\ err' = e
    /\ pc' = "aexit"

\* lines 172-178: read the environment, return when a variable is missing
MainConfig ==
    /\ pc = "start"
    /\ IF ~config.api_key \/ ~config.agent_private_key
       THEN /\ log' = Append(log, Line("config_missing", ""))
            /\ result' = "returned"
            /\ pc' = "done"
       ELSE /\ pc' = "aenter"
            /\ UNCHANGED <<log, result>>
    /\ UNCHANGED <<config, session, solana, keypair, health, balance, txdata, tx,
                   signature, outcome, err, raisedAt, calls, lastCall>>

\* lines 29-31 and 182-183: __aenter__ opens the session, then the RPC client is made
AEnter ==
    /\ pc = "aenter"
    /\ session' = "open"
    /\ solana' = "open"
    /\ pc' = "load_key"
    /\ UNCHANGED <<config, keypair, health, balance, txdata, tx, signature,
                   outcome, err, raisedAt, log, calls, result, lastCall>>

\* line 187: Keypair.from_secret_key(base64.b64decode(...)) may reject the key
LoadKeypair ==
    /\ pc = "load_key"
    /\ \E valid \in BOOLEAN :
         IF valid
         THEN /\ keypair' = TRUE
              /\ pc' = "health"
              /\ UNCHANGED err
         ELSE /\ RaiseInScope(Err("ValueError", "bad secret key"))
              /\ UNCHANGED keypair
    /\ UNCHANGED <<config, session, solana, health, balance, txdata, tx, signature,
                   outcome, raisedAt, log, calls, result, lastCall>>

\* the run stopped when the service is unhealthy
AfterHealthGated(ret) == IF ret = "true" THEN "balance" ELSE "aexit"

\* line 190 is a bare `await phase_client.check_health()`: whatever it returns,
\* the next statement is the balance query
AfterHealth(ret) == "balance"

\* line 190: await phase_client.check_health(); the value is dropped
MainCheckHealth ==
    /\ pc = "health"
    /\ \E resp \in HealthResponses :
         LET r == CheckHealth(session, resp) IN
         /\ calls' = IF r.sent THEN Append(calls, "GET /health") ELSE calls
         /\ IF r.raised
            THEN /\ RaiseInScope(r.err)
                 /\ UNCHANGED <<health, log>>
            ELSE /\ health' = r.ret
                 /\ log' = Append(log, Line(IF r.ret = "true" THEN "healthy"
                                                              ELSE "unhealthy", ""))
                 /\ pc' = AfterHealth(r.ret)
                 /\ UNCHANGED err
    /\ UNCHANGED <<config, session, solana, keypair, balance, txdata, tx, signature,
                   outcome, raisedAt, result, lastCall>>

\* lines 193-197: get_balance and the read of ['result']['value']
GetBalance ==
    /\ pc = "balance"
    /\ calls' = Append(calls, "get_balance")
    /\ \/ /\ RaiseInScope(Err("RPCException", "get_balance failed"))
          /\ UNCHANGED <<balance, log>>
       \/ /\ RaiseInScope(Err("KeyError", "'result'"))
          /\ UNCHANGED <<balance, log>>
       \/ \E b \in Balances :
            /\ balance' = b
            /\ log' = Append(log, Line("balance", ""))
            /\ pc' = "balance_check"
            /\ UNCHANGED err
    /\ UNCHANGED <<config, session, solana, keypair, health, txdata, tx, signature,
                   outcome, raisedAt, result, lastCall>>

\* lines 199-201: `if balance_sol < 1.1: print(...); return`
BalanceCheck ==
    /\ pc = "balance_check"
    /\ IF InsufficientBalance(balance)
       THEN /\ log' = Append(log, Line("insufficient_balance", ""))
            /\ pc' = "aexit"
       ELSE /\ pc' = "build"
            /\ UNCHANGED log
    /\ UNCHANGED <<config, session, solana, keypair, health, balance, txdata, tx,
                   signature, outcome, err, raisedAt, calls, result, lastCall>>

----------------------------------------------------------------------------
(* execute_staking, called from main() at line 205 *)

\* the failure logged and the workflow carried on with the next step
ContinueAfterError(step, e) ==
    /\ err' = e
    /\ raisedAt' = [step |-> step, err |-> e]
    /\ pc' = "decode"

\* the failure answered by starting the workflow again
RetryAfterError(step, e) ==
    /\ err' = NoErr
    /\ raisedAt' = raisedAt
    /\ pc' = "build"

\* an exception inside the try block of execute_staking
RaiseInExec(step, e) ==
    /\ err' = e
    /\ raisedAt' = [step |-> step, err |-> e]
    /\ pc' = "exec_except"

\* lines 100-117: build the transaction, print its metadata and fees
ExecBuild ==
    /\ pc = "build"
    /\ \E resp \in BuildResponses :
         LET r == BuildStakeTransaction(session, resp) IN
         /\ calls' = IF r.sent THEN Append(calls, "POST /stake/build") ELSE calls
         /\ IF r.raised
            THEN /\ RaiseInExec("build", r.err)
                 /\ log' = Append(log, Line("building", ""))
                 /\ UNCHANGED txdata
            ELSE /\ txdata' = r.data
                 /\ log' = log \o <<Line("building", ""), Line("built", "")>>
                 /\ IF r.data = "nometa"
                    THEN RaiseInExec("fields", Err("KeyError", "'metadata'"))
                    ELSE /\ pc' = "decode"
                         /\ UNCHANGED <<err, raisedAt>>
    /\ UNCHANGED <<config, session, solana, keypair, health, balance, tx, signature,
                   outcome, result, lastCall>>

\* lines 120-122: read serialized, base64.b64decode, Transaction.deserialize
ExecDecode ==
    /\ pc = "decode"
    /\ IF txdata = "noserialized"
       THEN /\ RaiseInExec("fields", Err("KeyError", "'serialized'"))
            /\ UNCHANGED <<calls, tx>>
       ELSE IF txdata = "badb64"
       THEN /\ RaiseInExec("decode", Err("binascii.Error", "Incorrect padding"))
            /\ calls' = Append(calls, "b64decode")
            /\ UNCHANGED tx
       ELSE IF txdata = "badtx"
       THEN /\ RaiseInExec("deserialize", Err("ValueError", "bad transaction"))
            /\ calls' = calls \o <<"b64decode", "deserialize">>
            /\ UNCHANGED tx
       ELSE /\ calls' = calls \o <<"b64decode", "deserialize">>
            /\ tx' = "unsigned"
            /\ pc' = "sign"
            /\ UNCHANGED <<err, raisedAt>>
    /\ UNCHANGED <<config, session, solana, keypair, health, balance, txdata,
                   signature, outcome, log, result, lastCall>>

\* lines 125-127: transaction.sign(agent_keypair)
ExecSign ==
    /\ pc = "sign"
    /\ calls' = Append(calls, "sign")
    /\ \/ /\ tx' = "signed"
          /\ log' = Append(log, Line("signed", ""))
          /\ pc' = "send"
          /\ UNCHANGED <<err, raisedAt>>
       \/ /\ RaiseInExec("sign", Err("ValueError", "unknown signer"))
          /\ UNCHANGED <<tx, log>>
    /\ UNCHANGED <<config, session, solana, keypair, health, balance, txdata,
                   signature, outcome, result, lastCall>>

\* lines 130-131: send_transaction and the read of response['result']
ExecSend ==
    /\ pc = "send"
    /\ calls' = Append(calls, "send_transaction")
    /\ \/ /\ signature' = TxSignature
          /\ pc' = "confirm"
          /\ UNCHANGED <<err, raisedAt>>
       \/ /\ RaiseInExec("send", Err("RPCException", "send failed"))
          /\ UNCHANGED signature
       \/ /\ RaiseInExec("send", Err("KeyError", "'result'"))
          /\ UNCHANGED signature
    /\ UNCHANGED <<config, session, solana, keypair, health, balance, txdata, tx,
                   outcome, log, result, lastCall>>

\* line 134: confirm_transaction
ExecConfirm ==
    /\ pc = "confirm"
    /\ calls' = Append(calls, "confirm_transaction")
    /\ \/ /\ pc' = "exec_return"
          /\ UNCHANGED <<err, raisedAt>>
       \/ RaiseInExec("confirm", Err("RPCException", "confirm failed"))
    /\ UNCHANGED <<config, session, solana, keypair, health, balance, txdata, tx,
                   signature, outcome, log, result, lastCall>>

\* lines 136-145: print the success lines and return the outcome record
ExecReturn ==
    /\ pc = "exec_return"
    /\ log' = Append(log, Line("success", signature))
    /\ outcome' = [present |-> TRUE, signature |-> signature,
                   stake_account |-> StakeAccount, validator |-> Validator,
                   estimated_apy |-> EstimatedApy]
    /\ pc' = "complete"
    /\ UNCHANGED <<config, session, solana, keypair, health, balance, txdata, tx,
                   signature, err, raisedAt, calls, result, lastCall>>

\* the `raise` of line 149 left out
ReraiseSwallowed(e) == NoErr

\* what `except Exception as error: print(...); raise` leaves in flight
Reraise(e) == e

\* lines 147-149
ExecExcept ==
    /\ pc = "exec_except"
    /\ log' = Append(log, Line("staking_failed", err.msg))
    /\ err' = Reraise(err)
    /\ pc' = IF err' = NoErr THEN "complete" ELSE "aexit"
    /\ UNCHANGED <<config, session, solana, keypair, health, balance, txdata, tx,
                   signature, outcome, raisedAt, calls, result, lastCall>>

----------------------------------------------------------------------------
(* the end of main() *)

\* lines 213-214
MainComplete ==
    /\ pc = "complete"
    /\ log' = Append(log, Line("complete", ""))
    /\ pc' = "aexit"
    /\ UNCHANGED <<config, session, solana, keypair, health, balance, txdata, tx,
                   signature, outcome, err, raisedAt, calls, result, lastCall>>

\* __aexit__ that does not close
SessionLeftOpen(sess) == sess

\* lines 33-35: `if self.session: await self.session.close()`
SessionAfterExit(sess) == IF sess = "none" THEN "none" ELSE "closed"

AExit ==
    /\ pc = "aexit"
    /\ session' = SessionAfterExit(session)
    /\ pc' = IF err = NoErr THEN "finally" ELSE "main_except"
    /\ UNCHANGED <<config, solana, keypair, health, balance, txdata, tx, signature,
                   outcome, err, raisedAt, log, calls, result, lastCall>>

\* lines 216-218
MainExcept ==
    /\ pc = "main_except"
    /\ log' = Append(log, Line("error", err.msg))
    /\ pc' = "finally"
    /\ UNCHANGED <<config, session, solana, keypair, health, balance, txdata, tx,
                   signature, outcome, err, raisedAt, calls, result, lastCall>>

\* lines 219-220
MainFinally ==
    /\ pc = "finally"
    /\ solana' = "closed"
    /\ result' = IF err = NoErr THEN "returned" ELSE "raised"
    /\ pc' = "done"
    /\ UNCHANGED <<config, session, keypair, health, balance, txdata, tx, signature,
                   outcome, err, raisedAt, log, calls, lastCall>>

Next ==
    \/ MainConfig
    \/ AEnter
    \/ LoadKeypair
    \/ MainCheckHealth
    \/ GetBalance
    \/ BalanceCheck
    \/ ExecBuild
    \/ ExecDecode
    \/ ExecSign
    \/ ExecSend
    \/ ExecConfirm
    \/ ExecReturn
    \/ ExecExcept
    \/ MainComplete
    \/ AExit
    \/ MainExcept
    \/ MainFinally

Spec == Init /\ [][Next]_vars

----------------------------------------------------------------------------
(* The client used directly: any order of __aenter__, __aexit__,               *)
(* build_stake_transaction and check_health on one PhaseStakingClient object.  *)

\* lines 24-27: after __init__ the session is None
InitClient ==
    /\ pc = "client"
    /\ config = [api_key |-> TRUE, agent_private_key |-> TRUE]
    /\ session = "none"
    /\ solana = "unbound"
    /\ keypair = FALSE
    /\ health = "unset"
    /\ balance = -1
    /\ txdata = "absent"
    /\ tx = "none"
    /\ signature = ""
    /\ outcome = NoOutcome
    /\ err = NoErr
    /\ raisedAt = NoRaise
    /\ log = <<>>
    /\ calls = <<>>
    /\ result = "running"
    /\ lastCall = NoCall

\* lines 29-31
CliEnter ==
    /\ pc = "client"
    /\ session' = "open"
    /\ lastCall' = [NoCall EXCEPT !.op = "aenter", !.sess = session]
    /\ UNCHANGED <<pc, config, solana, keypair, health, balance, txdata, tx,
                   signature, outcome, err, raisedAt, log, calls, result>>

\* lines 33-35
CliExit ==
    /\ pc = "client"
    /\ session' = SessionAfterExit(session)
    /\ lastCall' = [NoCall EXCEPT !.op = "aexit", !.sess = session]
    /\ UNCHANGED <<pc, config, solana, keypair, health, balance, txdata, tx,
                   signature, outcome, err, raisedAt, log, calls, result>>

\* lines 37-79
CliBuild ==
    /\ pc = "client"
    /\ Len(calls) < MaxCalls
    /\ \E resp \in BuildResponses :
         LET r == BuildStakeTransaction(session, resp) IN
         /\ calls' = IF r.sent THEN Append(calls, "POST /stake/build") ELSE calls
         /\ lastCall' = [op |-> "build", sess |-> session, build |-> resp,
                         health |-> HealthFailed, sent |-> r.sent,
                         raised |-> r.raised, err |-> r.err, ret |-> r.data]
    /\ UNCHANGED <<pc, config, session, solana, keypair, health, balance, txdata,
                   tx, signature, outcome, err, raisedAt, log, result>>

\* lines 151-165
CliCheckHealth ==
    /\ pc = "client"
    /\ Len(calls) < MaxCalls
    /\ \E resp \in HealthResponses :
         LET r == CheckHealth(session, resp) IN
         /\ calls' = IF r.sent THEN Append(calls, "GET /health") ELSE calls
         /\ lastCall' = [op |-> "health", sess |-> session, build |-> BuildFailed,
                         health |-> resp, sent |-> r.sent,
                         raised |-> r.raised, err |-> r.err, ret |-> r.ret]
         /\ log' = IF r.raised THEN log
                   ELSE Append(log, Line(IF r.ret = "true" THEN "healthy"
                                                           ELSE "unhealthy", ""))
    /\ UNCHANGED <<pc, config, session, solana, keypair, health, balance, txdata,
                   tx, signature, outcome, err, raisedAt, result>>

NextClient ==
    \/ CliEnter
    \/ CliExit
    \/ CliBuild
    \/ CliCheckHealth

SpecClient == InitClient /\ [][NextClient]_vars

----------------------------------------------------------------------------
(* Properties *)

Post == "POST /stake/build"

\* the steps of execute_staking, in the order of its source
ExecSteps == <<Post, "b64decode", "deserialize", "sign", "send_transaction",
               "confirm_transaction">>

IsExecStep(c) == \E i \in DOMAIN ExecSteps : ExecSteps[i] = c

\* the part of `calls` made by execute_staking
ExecCalls == SelectSeq(calls, IsExecStep)

IsPrefix(a, b) == Len(a) <= Len(b) /\ SubSeq(b, 1, Len(a)) = a

Submitted == Count(calls, "sign") + Count(calls, "send_transaction")
                 + Count(calls, "confirm_transaction")

\* the step of `calls` at which a failure at `step` leaves execute_staking
LastCallOf(step) ==
    CASE step = "build" -> Post
      [] step = "fields" -> Post
      [] step = "decode" -> "b64decode"
      [] step = "deserialize" -> "deserialize"
      [] step = "sign" -> "sign"
      [] step = "send" -> "send_transaction"
      [] step = "confirm" -> "confirm_transaction"
      [] OTHER -> "none"

\* C1: in a run of execute_staking the transaction is signed, sent and confirmed
\* only after build_stake_transaction has returned its data record; when the
\* build failed, no sign, send_transaction or confirm_transaction call is made.
C1_SubmitOnlyAfterBuild ==
    /\ Submitted > 0 =>
          /\ txdata # "absent"
          /\ raisedAt.step # "build"
          /\ Count(calls, Post) = 1
    /\ raisedAt.step = "build" => Submitted = 0 /\ tx = "none"

C1_Witness ==
    /\ pc = "done"
    /\ raisedAt.step = "build"
    /\ raisedAt.err.type = "Exception"

C3_HealthNeverRaises ==
    (lastCall.op = "health" /\ lastCall.sess = "open") =>
          /\ ~lastCall.raised
          /\ lastCall.ret = "true" <=>
                /\ lastCall.health.transport = "ok"
                /\ lastCall.health.ok
                /\ lastCall.health.kind = "object"
                /\ lastCall.health.data = "object"
                /\ lastCall.health.status = "healthy"

\* C4: when the balance read from the RPC node is below 1.1 SOL, the run of
\* main ends without a build_stake_transaction call, hence without any sign,
\* send_transaction or confirm_transaction call.
C4_NoBuildBelowMinimum ==
    (balance >= 0 /\ balance < 1100000000) =>
          /\ Count(calls, Post) = 0
          /\ Submitted = 0
          /\ txdata = "absent"
          /\ ~outcome.present
          /\ pc \in {"balance_check", "aexit", "finally", "done"}
          /\ pc = "done" => result = "returned"

C4_Witness ==
    /\ pc = "done"
    /\ balance = 1099999999
    /\ Count(calls, "get_balance") = 1

C6_SessionClosedOnExit ==
    /\ pc \in {"main_except", "finally", "done"} => session # "open"
    /\ (pc = "done" /\ solana # "unbound") => session = "closed"

C6_Witness ==
    /\ pc = "done"
    /\ result = "raised"
    /\ raisedAt.step = "send"
    /\ session = "closed"

\* C7: build_stake_transaction on a client whose session was never opened fails
\* with the RuntimeError of line 55 and sends nothing; a request to
\* /stake/build is sent only while the session is open.
C7_BuildNeedsOpenSession ==
    lastCall.op = "build" =>
          /\ lastCall.sess = "none" =>
                /\ lastCall.raised
                /\ lastCall.err = Err("RuntimeError", NotInitialized)
                /\ ~lastCall.sent
          /\ lastCall.sent => lastCall.sess = "open"
          /\ lastCall.sess # "open" => lastCall.raised /\ ~lastCall.sent

C7_Witness ==
    /\ lastCall.op = "build"
    /\ lastCall.sess = "none"
    /\ lastCall.raised
    /\ calls = <<>>

\* C8: the steps of one execute_staking run occur in the order build, decode,
\* deserialize, sign, send_transaction, confirm_transaction, each at most once,
\* and the outcome record exists only after confirm_transaction succeeded; a
\* run whose send or confirm failed has no outcome.
C8_FixedOrderNoRetry ==
    /\ IsPrefix(ExecCalls, ExecSteps)
    /\ \A i \in DOMAIN ExecSteps : Count(calls, ExecSteps[i]) <= 1
    /\ outcome.present =>
          /\ ExecCalls = ExecSteps
          /\ raisedAt = NoRaise
          /\ tx = "signed"
          /\ outcome.signature = TxSignature
    /\ raisedAt.step \in {"send", "confirm"} => ~outcome.present
    /\ (pc = "done" /\ raisedAt.step \in {"send", "confirm"}) => result = "raised"

C8_Witness ==
    /\ pc = "done"
    /\ outcome.present
    /\ ExecCalls = ExecSteps

\* C9: a failure at any step of execute_staking is logged once with the
\* "Staking failed" marker and reaches the caller as the same error; no later
\* step runs, and the run never turns the failure into a normal return.
C9_FailurePropagates ==
    /\ raisedAt # NoRaise =>
          /\ err = raisedAt.err
          /\ ~outcome.present
          /\ pc \in {"exec_except", "aexit", "main_except", "finally", "done"}
          /\ ExecCalls # <<>>
          /\ ExecCalls[Len(ExecCalls)] = LastCallOf(raisedAt.step)
          /\ Count(log, Line("staking_failed", raisedAt.err.msg))
                = IF pc = "exec_except" THEN 0 ELSE 1
          /\ pc = "done" => result = "raised"
    /\ \A i \in DOMAIN log :
          log[i].marker = "staking_failed" =>
              raisedAt # NoRaise /\ log[i].msg = raisedAt.err.msg

C9_Witness ==
    /\ pc = "done"
    /\ raisedAt.step = "confirm"
    /\ result = "raised"
    /\ err = raisedAt.err

\* C10: the value check_health returns does not gate main: after a false
\* answer the balance query is still made and, with a balance of at least
\* 1.1 SOL, execute_staking still runs (build, and on success sign, send and
\* confirm). Once check_health has returned, only an exception or an
\* insufficient balance ends the run without a build call.
C10_HealthDoesNotGate ==
    /\ (health = "false" /\ pc # "balance") => Count(calls, "get_balance") = 1
    /\ (health = "false" /\ balance >= 1100000000 /\ pc \notin {"balance_check", "build"})
          => Count(calls, Post) = 1
    /\ (health = "false" /\ pc = "done" /\ result = "returned"
          /\ balance >= 1100000000) => outcome.present /\ ExecCalls = ExecSteps
    /\ (health # "unset" /\ pc = "done" /\ Count(calls, Post) = 0)
          => result = "raised" \/ (balance >= 0 /\ balance < 1100000000)

C10_Witness ==
    /\ pc = "done"
    /\ health = "false"
    /\ outcome.present
    /\ ExecCalls = ExecSteps

====
